---- MODULE Spec2Model ----
(***************************************************************************)
(* A model of reprise.py, a static site generator: the entry parser, the   *)
(* catalog, the feed and page builders, and the publish sequence of the    *)
(* main program.  Strings are sequences of one-character strings, so that  *)
(* the regular expressions, the slug derivation, the date formatting and   *)
(* the string comparison of the sort are computed as the code computes     *)
(* them.                                                                   *)
(***************************************************************************)
EXTENDS Integers, Sequences, FiniteSets, TLC

(***************************************************************************)
(* Bounds of the model.                                                    *)
(***************************************************************************)
\* The largest number of files in the source directory.
MaxFiles == 2

(***************************************************************************)
(* Characters and strings.                                                 *)
(***************************************************************************)
\* The characters of the model in ASCII order: the comparison of two
\* strings (the sort key of the catalog) is by position in this sequence.
Alphabet ==
  << " ", "!", "-", ".", "/",
     "0", "1", "2", "3", "4", "5", "6", "7", "8", "9", ":",
     "B", "H", "M", "N", "P", "S", "T", "W", "Z", "_",
     "a", "b", "c", "d", "e", "g", "h", "i", "k", "l", "m", "n", "o",
     "p", "r", "s", "t", "u", "v", "w", "x", "y", "z" >>

\* The position of each character, computed once.
Positions ==
  [ c \in { Alphabet[i] : i \in 1..Len(Alphabet) } |->
      CHOOSE i \in 1..Len(Alphabet) : Alphabet[i] = c ]

Ord(c) == Positions[c]

DigitChars == << "0", "1", "2", "3", "4", "5", "6", "7", "8", "9" >>

IsDigit(c) == c \in { DigitChars[i] : i \in 1..Len(DigitChars) }

UpperChars == << "B", "H", "M", "N", "P", "S", "T", "W", "Z" >>

LowerChars == << "b", "h", "m", "n", "p", "s", "t", "w", "z" >>

\* str.lower() on one character.
LowerChar(c) ==
  IF \E i \in 1..Len(UpperChars) : UpperChars[i] = c
  THEN LowerChars[CHOOSE i \in 1..Len(UpperChars) : UpperChars[i] = c]
  ELSE c

\* The regular expression class \w.
IsWord(c) == c = "_" \/ (Ord(c) >= Ord("0") /\ Ord(c) <= Ord("9"))
             \/ (Ord(c) >= Ord("B") /\ Ord(c) <= Ord("Z"))
             \/ Ord(c) >= Ord("a")

\* The regular expression class \s.
IsSpace(c) == c = " "

\* s[i], or the empty string past either end.
At(s, i) == IF i \in 1..Len(s) THEN s[i] ELSE ""

Range(s) == { s[i] : i \in 1..Len(s) }

\* Python's comparison of two strings: s < t.
StrLess(s, t) ==
  \E i \in 1..Len(t) :
     /\ \A j \in 1..(i-1) : j <= Len(s) /\ s[j] = t[j]
     /\ \/ i = Len(s) + 1
        \/ i <= Len(s) /\ Ord(s[i]) < Ord(t[i])

\* int(d) of a string of digits.
RECURSIVE int(_)
int(d) ==
  IF d = << >> THEN 0
  ELSE 10 * int(SubSeq(d, 1, Len(d) - 1))
       + ((CHOOSE i \in 1..10 : DigitChars[i] = d[Len(d)]) - 1)

\* The decimal digits of n, zero-padded to width w ('%02d', '%04d').
RECURSIVE Pad(_, _)
Pad(n, w) ==
  IF w = 0 THEN << >>
  ELSE Pad(n \div 10, w - 1) \o << DigitChars[(n % 10) + 1] >>

(***************************************************************************)
(* The configuration of the program.                                       *)
(***************************************************************************)
URL ==
  << "h","t","t","p",":","/","/","s","i","m","o","n","z","i","m","m","e",
     "r","m","a","n","n",".","c","o","m" >>

STYLESHEET == << "s","t","y","l","e",".","c","s","s" >>

\* 'http://' and the text before a path, as atom_id's pattern reads them.
HttpPrefix == << "h","t","t","p",":","/","/" >>

(***************************************************************************)
(* slugify.                                                                *)
(***************************************************************************)
\* str.replace('.', ' ')
ReplaceDots(s) == [ i \in 1..Len(s) |-> IF s[i] = "." THEN " " ELSE s[i] ]

\* str.lower()
Lower(s) == [ i \in 1..Len(s) |-> LowerChar(s[i]) ]

\* re.sub(r'[^\w\s-]', '', s)
RemoveNonSlug(s) ==
  SelectSeq(s, LAMBDA c : IsWord(c) \/ IsSpace(c) \/ c = "-")

\* re.sub(r'\s+', '-', s): each run of whitespace becomes one hyphen.
RECURSIVE CollapseSpaces(_)
CollapseSpaces(s) ==
  IF s = << >> THEN << >>
  ELSE LET n == Len(s)
           init == CollapseSpaces(SubSeq(s, 1, n - 1))
       IN  IF IsSpace(s[n])
           THEN IF n > 1 /\ IsSpace(s[n-1]) THEN init ELSE init \o << "-" >>
           ELSE init \o << s[n] >>

slugify(str) == CollapseSpaces(RemoveNonSlug(Lower(ReplaceDots(str))))

(***************************************************************************)
(* Dates: datetime, its validation, arithmetic and formatting.             *)
(***************************************************************************)
IsLeap(y) == (y % 4 = 0 /\ y % 100 # 0) \/ y % 400 = 0

DaysInMonth(y, m) ==
  IF m = 2 THEN (IF IsLeap(y) THEN 28 + 1 ELSE 28)
  ELSE IF m \in {4, 6, 9, 11} THEN 30 ELSE 30 + 1

\* datetime(year, month, day) raises ValueError unless this holds.
ValidDate(y, m, d) ==
  /\ y \in 1..9999
  /\ m \in 1..12
  /\ d \in 1..DaysInMonth(y, m)

datetime(y, m, d) ==
  [ year |-> y, month |-> m, day |-> d, hour |-> 0, minute |-> 0, second |-> 0 ]

\* The day before and the day after a date.
PrevDay(dt) ==
  IF dt.day > 1 THEN [ dt EXCEPT !.day = dt.day - 1 ]
  ELSE IF dt.month > 1
       THEN [ dt EXCEPT !.month = dt.month - 1,
                        !.day = DaysInMonth(dt.year, dt.month - 1) ]
       ELSE [ dt EXCEPT !.year = dt.year - 1, !.month = 12, !.day = 30 + 1 ]

NextDay(dt) ==
  IF dt.day < DaysInMonth(dt.year, dt.month) THEN [ dt EXCEPT !.day = dt.day + 1 ]
  ELSE IF dt.month < 12
       THEN [ dt EXCEPT !.month = dt.month + 1, !.day = 1 ]
       ELSE [ dt EXCEPT !.year = dt.year + 1, !.month = 1, !.day = 1 ]

\* date + timedelta(seconds=offset), for an offset of less than a day.
AddSeconds(dt, offset) ==
  LET secs  == dt.hour * 3600 + dt.minute * 60 + dt.second + offset
      shift == secs \div 86400
      rest  == secs % 86400
      day   == IF shift < 0 THEN PrevDay(dt)
               ELSE IF shift > 0 THEN NextDay(dt) ELSE dt
  IN  [ day EXCEPT !.hour = rest \div 3600,
                   !.minute = (rest % 3600) \div 60,
                   !.second = rest % 60 ]

\* datetime.isoformat(): 'YYYY-MM-DDTHH:MM:SS'
isoformat(dt) ==
  Pad(dt.year, 4) \o << "-" >> \o Pad(dt.month, 2) \o << "-" >>
    \o Pad(dt.day, 2) \o << "T" >> \o Pad(dt.hour, 2) \o << ":" >>
    \o Pad(dt.minute, 2) \o << ":" >> \o Pad(dt.second, 2)

\* date.strftime('%Y-%m-%d')
display(dt) ==
  Pad(dt.year, 4) \o << "-" >> \o Pad(dt.month, 2) \o << "-" >> \o Pad(dt.day, 2)

\* rfc3339(date), the process's UTC offset being utcoffset seconds:
\* (date + timedelta(seconds=offset)).strftime('%Y-%m-%dT%H:%M:%SZ')
rfc3339(date, offset) == isoformat(AddSeconds(date, offset)) \o << "Z" >>

\* The date arithmetic of rfc3339 raises OverflowError outside years 1..9999.
Overflows(date, offset) == AddSeconds(date, offset).year \notin 1..9999

(***************************************************************************)
(* META_REGEX = /(\d{4})\.(\d{1,2})\.(\d{1,2})\.(.+)                       *)
(***************************************************************************)
\* The length of the match of (\d{1,2})\. at position j of s, the period
\* not counted; 0 when there is none.
DigitsDot(s, j) ==
  IF IsDigit(At(s, j)) /\ At(s, j + 1) = "." THEN 1
  ELSE IF IsDigit(At(s, j)) /\ IsDigit(At(s, j + 1)) /\ At(s, j + 2) = "."
       THEN 2 ELSE 0

\* Whether the pattern matches s starting at position i.
MatchesAt(s, i) ==
  /\ At(s, i) = "/"
  /\ \A k \in 1..4 : IsDigit(At(s, i + k))
  /\ At(s, i + 5) = "."
  /\ DigitsDot(s, i + 6) > 0
  /\ DigitsDot(s, i + 7 + DigitsDot(s, i + 6)) > 0
  /\ i + 8 + DigitsDot(s, i + 6)
       + DigitsDot(s, i + 7 + DigitsDot(s, i + 6)) <= Len(s)

\* The four groups of the match at position i.
GroupsAt(s, i) ==
  LET m == i + 6
      ml == DigitsDot(s, m)
      d == m + ml + 1
      dl == DigitsDot(s, d)
  IN  << SubSeq(s, i + 1, i + 4), SubSeq(s, m, m + ml - 1),
         SubSeq(s, d, d + dl - 1), SubSeq(s, d + dl + 1, Len(s)) >>

\* META_REGEX.findall(file): the groups of each match, leftmost first.  The
\* last group runs to the end of the string, so there is at most one match.
META_REGEX_findall(s) ==
  LET starts == { i \in 1..Len(s) : MatchesAt(s, i) }
  IN  IF starts = {} THEN << >>
      ELSE << GroupsAt(s, CHOOSE i \in starts : \A j \in starts : i <= j) >>

(***************************************************************************)
(* The file system.  A directory tree is absent, or holds subdirectories   *)
(* and files; a path is a string relative to the tree's root.  A file's    *)
(* content is a record: what was rendered, and from what.                  *)
(***************************************************************************)
NoDir == [ exists |-> FALSE, dirs |-> {}, files |-> << >> ]

Content(kind, entries, tag, feedUrl, updated) ==
  [ kind |-> kind, entries |-> entries, active_tag |-> tag,
    feed_url |-> feedUrl, updated |-> updated ]

\* A file that no generation step of this run wrote.
Plain(kind) == Content(kind, << >>, << >>, << >>, << >>)

Paths(tree) == DOMAIN tree.files

\* The tree with only the files of S left in it.
Keep(tree, S) == [ tree EXCEPT !.files = [ p \in S |-> tree.files[p] ] ]

\* write_file(file_name, contents), the file's directory existing.
write_file(tree, path, contents) ==
  [ tree EXCEPT !.files =
      [ p \in (DOMAIN tree.files) \cup {path} |->
          IF p = path THEN contents ELSE tree.files[p] ] ]

\* The count of write_file calls per path, one more for path.
Logged(log, path) ==
  [ p \in (DOMAIN log) \cup {path} |->
      IF p = path THEN (IF p \in DOMAIN log THEN log[p] + 1 ELSE 1)
      ELSE log[p] ]

\* shutil.rmtree(dir) inside _rm, an OSError passed over: a directory that
\* does not exist stays so; one that exists is removed, or the removal
\* stops at the first error with any part of the files still there.
_rm(tree) ==
  IF ~tree.exists THEN {tree}
  ELSE {NoDir} \cup { Keep(tree, S) : S \in SUBSET Paths(tree) }

(***************************************************************************)
(* The names of the generated files.                                       *)
(***************************************************************************)
DotHtml == << ".", "h", "t", "m", "l" >>

DotAtom == << ".", "a", "t", "o", "m" >>

TagsDir == << "t", "a", "g", "s" >>

BuildName == << "b", "u", "i", "l", "d" >>

IndexName == << "i", "n", "d", "e", "x" >>

NotFoundName == << "4", "0", "4" >>

EntriesDir == << "/", "e", "n", "t", "r", "i", "e", "s" >>

\* os.path.join of two relative names.
join(a, b) == a \o << "/" >> \o b

(***************************************************************************)
(* The inputs of a run: where the program lives, the source files, the     *)
(* assets, the time zone, and what earlier runs left behind.               *)
(***************************************************************************)
\* ROOT, the directory of the program: an ordinary one, and one whose own
\* name has the form of a dated entry.
Roots ==
  { << "/", "s", "r", "v" >>,
    << "/", "2", "0", "2", "0", ".", "1", ".", "1", ".", "s" >> }

go == << "g", "o" >>

rust == << "r", "u", "s", "t" >>

SourceFile(name, tags, payload) ==
  [ name |-> name, tags |-> tags, payload |-> payload ]

\* The files a source directory is made of: the two entries of the
\* end-to-end example, an entry whose title differs from the first one's
\* only in case and punctuation, an entry of the same day as the second,
\* a file that is no entry, and an entry of month 13.
FilePool ==
  { SourceFile(<< "2","0","2","3",".","0","1",".","0","5",".",
                  "H","e","l","l","o",".","W","o","r","l","d" >>,
               << go, rust >>, "hello"),
    SourceFile(<< "2","0","2","3",".","0","2",".","1","0",".",
                  "S","e","c","o","n","d",".","P","o","s","t" >>,
               << go >>, "second"),
    SourceFile(<< "2","0","2","3",".","1","0",".","1",".",
                  "h","e","l","l","o"," ","w","o","r","l","d","!" >>,
               << rust, rust >>, "again"),
    SourceFile(<< "2","0","2","3",".","2",".","1","0",".",
                  "i","n","d","e","x" >>,
               << >>, "index"),
    SourceFile(<< "n","o","t","e","s",".","t","x","t" >>,
               << >>, "notes"),
    SourceFile(<< "2","0","2","3",".","1","3",".","0","1",".",
                  "B","a","d" >>,
               << go >>, "bad") }

\* os.listdir(DIRS['source']): the files of the directory in any order.
Listings ==
  { fs \in UNION { [ 1..n -> FilePool ] : n \in 0..MaxFiles } :
      \A i, j \in 1..Len(fs) : i # j => fs[i] # fs[j] }

\* The assets directory: missing, one file, or one file and a directory
\* named tags.
AssetTrees ==
  { NoDir,
    [ exists |-> TRUE, dirs |-> {},
      files |-> [ p \in { << "a", ".", "p", "n", "g" >> } |-> Plain("asset") ] ],
    [ exists |-> TRUE, dirs |-> { TagsDir },
      files |-> [ p \in { << "a", ".", "p", "n", "g" >> } |-> Plain("asset") ] ] }

\* The public directory before the run: none, or an earlier run's output.
PublicTrees ==
  { NoDir,
    [ exists |-> TRUE, dirs |-> { TagsDir },
      files |-> [ p \in { IndexName \o DotHtml, << "o", "l", "d" >> \o DotHtml }
                   |-> Plain("previous") ] ] }

\* The staging directory before the run: none, or what a failed run left.
BuildTrees ==
  { NoDir,
    [ exists |-> TRUE, dirs |-> {},
      files |-> [ p \in { << "s", "t", "a", "l", "e" >> \o DotHtml }
                   |-> Plain("stale") ] ] }

\* -time.altzone or -time.timezone, in seconds: west and east of Greenwich.
UtcOffsets == { 0 - 18000, 3600 }

\* The values of --markup that optparse accepts, and one it refuses.
MarkupChoices ==
  { << "r", "e", "S", "T" >>, << "M", "a", "r", "k", "d", "o", "w", "n" >> }

MarkupArgs == MarkupChoices \cup { << "r", "s", "t" >> }

(***************************************************************************)
(* The entry parser and the catalog.                                       *)
(***************************************************************************)
\* _markup(content, options): the renderer that is called, and on what.
_markup(content, options) ==
  IF Lower(options.markup) = << "r", "e", "s", "t" >>
  THEN << "docutils", content >>
  ELSE << "markdown", content >>

\* The entry that the loop of read_and_parse_entries appends for a file
\* whose path matched with groups meta; date is datetime(*meta[0:3]).
parsed_entry(meta, date, f, options, offset) ==
  [ slug  |-> slugify(meta[4]),
    title |-> ReplaceDots(meta[4]),
    tags  |-> f.tags,
    date  |-> [ iso8601 |-> isoformat(date),
                rfc3339 |-> rfc3339(date, offset),
                display |-> display(date) ],
    content_html |-> << "smartyPants", _markup(f.payload, options) >> ]

\* The path that META_REGEX is matched against: join(DIRS['source'], f).
source_path(dir, f) == dir \o EntriesDir \o << "/" >> \o f.name

\* The loop of read_and_parse_entries over the listed files: the entries
\* appended, in the order read, or the exception that ends the run.
RECURSIVE parse_loop(_, _, _, _)
parse_loop(dir, fs, options, offset) ==
  IF fs = << >> THEN [ exc |-> "", entries |-> << >> ]
  ELSE LET before == parse_loop(dir, SubSeq(fs, 1, Len(fs) - 1), options, offset)
           f      == fs[Len(fs)]
           match  == META_REGEX_findall(source_path(dir, f))
       IN  IF before.exc # "" THEN before
           ELSE IF Len(match) = 0 THEN before
           ELSE LET meta == match[1]
                    y == int(meta[1])
                    m == int(meta[2])
                    d == int(meta[3])
                IN  IF ~ValidDate(y, m, d)
                    THEN [ exc |-> "ValueError", entries |-> << >> ]
                    ELSE IF Overflows(datetime(y, m, d), offset)
                    THEN [ exc |-> "OverflowError", entries |-> << >> ]
                    ELSE [ exc |-> "",
                           entries |-> Append(before.entries,
                              parsed_entry(meta, datetime(y, m, d), f,
                                           options, offset)) ]

\* The key of the sort: lambda x: x['date']['iso8601'].
sort_key(x) == x.date.iso8601

\* x inserted into a list that is sorted by key, largest first: before the
\* first element of a smaller key, so after every element of an equal one.
RECURSIVE insert_sorted(_, _)
insert_sorted(sorted, x) ==
  IF sorted = << >> THEN << x >>
  ELSE IF StrLess(sort_key(Head(sorted)), sort_key(x))
       THEN << x >> \o sorted
       ELSE << Head(sorted) >> \o insert_sorted(Tail(sorted), x)

\* x inserted the wrong way round: smallest key first.
RECURSIVE insert_ascending(_, _)
insert_ascending(sorted, x) ==
  IF sorted = << >> THEN << x >>
  ELSE IF StrLess(sort_key(x), sort_key(Head(sorted)))
       THEN << x >> \o sorted
       ELSE << Head(sorted) >> \o insert_ascending(Tail(sorted), x)

\* entries.sort(key=..., reverse=True) without reverse=True.
RECURSIVE entries_sort_ascending(_)
entries_sort_ascending(entries) ==
  IF entries = << >> THEN << >>
  ELSE insert_ascending(
         entries_sort_ascending(SubSeq(entries, 1, Len(entries) - 1)),
         entries[Len(entries)])

\* entries.sort(key=..., reverse=True): a stable sort, so entries of equal
\* keys keep the order they were appended in.
RECURSIVE entries_sort(_)
entries_sort(entries) ==
  IF entries = << >> THEN << >>
  ELSE insert_sorted(entries_sort(SubSeq(entries, 1, Len(entries) - 1)),
                     entries[Len(entries)])

(***************************************************************************)
(* The feed builder.                                                       *)
(***************************************************************************)
\* The domain of URL: re.sub(r'http://([^/]+).*', r'\1', URL).
domain ==
  LET rest == SubSeq(URL, Len(HttpPrefix) + 1, Len(URL))
      cut  == { i \in 1..Len(rest) : rest[i] = "/" }
  IN  IF SubSeq(URL, 1, Len(HttpPrefix)) # HttpPrefix \/ rest = << >>
        \/ At(rest, 1) = "/"
      THEN URL
      ELSE IF cut = {} THEN rest
      ELSE SubSeq(rest, 1, (CHOOSE i \in cut : \A j \in cut : i <= j) - 1)

\* atom_id(entry=entry): "tag:%s,%s:/%s"
atom_id(entry) ==
  << "t", "a", "g", ":" >> \o domain \o << "," >> \o entry.date.display
    \o << ":", "/" >> \o entry.slug

\* One entry element of a feed.
atom_entry(entry) ==
  [ id |-> atom_id(entry),
    title |-> entry.title,
    link |-> URL \o << "/" >> \o entry.slug,
    updated |-> entry.date.rfc3339,
    content |-> entry.content_html ]

\* generate_atom raises IndexError at entries[0] when this holds.
generate_atom_raises(entries) == entries = << >>

\* The feed that generate_atom returns but for the first entry read at the
\* wrong end of the list.
generate_atom_last(entries, feed_url) ==
  Content("atom", [ i \in 1..Len(entries) |-> atom_entry(entries[i]) ],
          << >>, feed_url, entries[Len(entries)].date.rfc3339)

\* generate_atom(entries, feed_url), entries not being empty.
generate_atom(entries, feed_url) ==
  Content("atom", [ i \in 1..Len(entries) |-> atom_entry(entries[i]) ],
          << >>, feed_url, entries[1].date.rfc3339)

(***************************************************************************)
(* The page builder.                                                       *)
(***************************************************************************)
\* template.render of list.html, detail.html, 404.html with its context.
render(template, entries, tag, feed_url) ==
  Content(template, entries, tag, feed_url, << >>)

\* sum([e['tags'] for e in entries], [])
RECURSIVE sum_tags(_)
sum_tags(entries) ==
  IF entries = << >> THEN << >>
  ELSE Head(entries).tags \o sum_tags(Tail(entries))

\* The tags but for taking only the first tag of each entry.
tag_set_of_first(entries) ==
  { entries[i].tags[1] : i \in { j \in 1..Len(entries) : entries[j].tags # << >> } }

\* set(sum([e['tags'] for e in entries], []))
tag_set(entries) == Range(sum_tags(entries))

\* [e for e in entries if tag in e['tags']]
tag_entries(entries, tag) ==
  SelectSeq(entries, LAMBDA e : \E i \in 1..Len(e.tags) : e.tags[i] = tag)

tag_feed_url(tag) == URL \o << "/" >> \o join(TagsDir, tag) \o DotAtom

\* The staging tree after the loop of generate_tag_indices has run for the
\* tags of T: for each, the tag's page and the tag's feed.
RECURSIVE write_tags(_, _, _)
write_tags(tree, entries, T) ==
  IF T = {} THEN tree
  ELSE LET tag == CHOOSE t \in T : TRUE
           te  == tag_entries(entries, tag)
           t1  == write_file(tree, join(TagsDir, tag) \o DotHtml,
                             render("list.html", te, tag, tag_feed_url(tag)))
           t2  == write_file(t1, join(TagsDir, tag) \o DotAtom,
                             generate_atom(te, tag_feed_url(tag)))
       IN  write_tags(t2, entries, T \ {tag})

\* The staging tree after the loop of generate_details has run for the
\* first k entries.
RECURSIVE write_details(_, _, _)
write_details(tree, entries, k) ==
  IF k = 0 THEN tree
  ELSE write_file(write_details(tree, entries, k - 1),
                  entries[k].slug \o DotHtml,
                  render("detail.html", << entries[k] >>, << >>, << >>))

\* The write_file calls counted, for the paths of ps in turn.
RECURSIVE log_all(_, _)
log_all(log, ps) ==
  IF ps = << >> THEN log
  ELSE log_all(Logged(log, Head(ps)), Tail(ps))

\* A set as a sequence, in some order.
RECURSIVE SetToSeq(_)
SetToSeq(S) ==
  IF S = {} THEN << >>
  ELSE LET x == CHOOSE y \in S : TRUE IN << x >> \o SetToSeq(S \ {x})

(***************************************************************************)
(* The state of a run of the main program.                                 *)
(***************************************************************************)
VARIABLES
  pc,          \* the statement of the main program to run next
  error,       \* the statement that raised and the exception, if any
  ROOT,        \* the directory of the program
  source,      \* os.listdir of the source directory, with each file
  assets,      \* the assets directory
  utcoffset,   \* the process's offset from UTC, in seconds
  build,       \* the staging directory
  public,      \* the public directory
  templates,   \* the templates loaded
  options,     \* the parsed command line
  all_entries, \* the catalog
  parsed,      \* the entries as the parser's loop appended them
  previous,    \* the public directory as it was before the run
  written,     \* how many times write_file wrote each path in this run
  staged       \* the staging directory as the generation steps left it

vars ==
  << pc, error, ROOT, source, assets, utcoffset, build, public, templates,
     options, all_entries, parsed, previous, written, staged >>

inputs == << ROOT, source, assets, utcoffset, previous >>

NoError == [ at |-> "", exc |-> "" ]

src_files ==
  { "base.html", "list.html", "detail.html", "_entry.html", "404.html",
    "style.css" }

Init ==
  /\ pc = "rm_build"
  /\ error = NoError
  /\ ROOT \in Roots
  /\ source \in Listings
  /\ assets \in AssetTrees
  /\ utcoffset \in UtcOffsets
  /\ build \in BuildTrees
  /\ public \in PublicTrees
  /\ previous = public
  /\ templates = {}
  /\ options = [ markup |-> << >> ]
  /\ all_entries = << >>
  /\ parsed = << >>
  /\ written = << >>
  /\ staged = NoDir

\* An exception that nothing catches: the run ends.
Raise(exc) ==
  /\ error' = [ at |-> pc, exc |-> exc ]
  /\ pc' = "failed"

Goto(next) ==
  /\ pc' = next
  /\ error' = error

(***************************************************************************)
(* The main program, one action per statement.                             *)
(***************************************************************************)
\* _rm(DIRS['public']) in the place of _rm(DIRS['build']).
RmBuildOfPublic ==
  /\ pc = "rm_build"
  /\ \E t \in _rm(public) : public' = t
  /\ Goto("get_templates")
  /\ UNCHANGED << inputs, parsed, build, templates, options, all_entries,
                  written, staged >>

\* _rm(DIRS['build'])
RmBuild ==
  /\ pc = "rm_build"
  /\ \E t \in _rm(build) : build' = t
  /\ Goto("get_templates")
  /\ UNCHANGED << inputs, parsed, public, templates, options, all_entries,
                  written, staged >>

\* templates = get_templates(); env = Environment(...): read_file raises when
\* a template file is missing.
GetTemplates ==
  /\ pc = "get_templates"
  /\ \/ /\ templates' = src_files
        /\ Goto("handle_args")
     \/ /\ Raise("IOError")
        /\ UNCHANGED templates
  /\ UNCHANGED << inputs, parsed, build, public, options, all_entries,
                  written, staged >>

\* options, args = handle_args(): optparse exits on a value of --markup that
\* is none of the choices.
HandleArgs ==
  /\ pc = "handle_args"
  /\ \E m \in MarkupArgs :
        IF m \in MarkupChoices
        THEN options' = [ markup |-> m ] /\ Goto("read_and_parse_entries")
        ELSE UNCHANGED options /\ Raise("SystemExit")
  /\ UNCHANGED << inputs, parsed, build, public, templates, all_entries,
                  written, staged >>

\* all_entries = read_and_parse_entries(options): the loop over the files,
\* then the sort of what it appended.
ReadAndParseEntries ==
  /\ pc = "read_and_parse_entries"
  /\ LET r == parse_loop(ROOT, source, options, utcoffset)
     IN  IF r.exc = ""
         THEN /\ parsed' = r.entries
              /\ all_entries' = entries_sort(r.entries)
              /\ Goto("copytree")
         ELSE /\ UNCHANGED << parsed, all_entries >>
              /\ Raise(r.exc)
  /\ UNCHANGED << inputs, build, public, templates, options, written,
                  staged >>

\* shutil.copytree(DIRS['assets'], DIRS['build']): raises when the assets
\* are missing, and when the staging directory is still there.
CopyAssets ==
  /\ pc = "copytree"
  /\ IF assets.exists /\ ~build.exists
     THEN build' = assets /\ Goto("generate_index")
     ELSE UNCHANGED build /\ Raise("OSError")
  /\ UNCHANGED << inputs, parsed, public, templates, options, all_entries,
                  written, staged >>

index_feed_url == URL \o << "/" >> \o IndexName \o DotAtom

\* generate_index, the feed being written for an empty catalog too.
GenerateIndexAnyCatalog ==
  /\ pc = "generate_index"
  /\ \/ /\ Raise("RenderError")
        /\ UNCHANGED << build, written >>
     \/ /\ build' = write_file(
                      write_file(build, IndexName \o DotHtml,
                         render("list.html", all_entries, << >>, index_feed_url)),
                      IndexName \o DotAtom,
                      Content("atom",
                         [ i \in 1..Len(all_entries) |-> atom_entry(all_entries[i]) ],
                         << >>, index_feed_url,
                         IF all_entries = << >> THEN << >>
                         ELSE all_entries[1].date.rfc3339))
        /\ written' = log_all(written,
                         << IndexName \o DotHtml, IndexName \o DotAtom >>)
        /\ Goto("mkdir_tags")
  /\ UNCHANGED << inputs, parsed, public, templates, options, all_entries,
                  staged >>

\* generate_index(all_entries, env.get_template('list.html')): the page is
\* written, then generate_atom raises for an empty catalog.
GenerateIndex ==
  /\ pc = "generate_index"
  /\ \/ /\ Raise("RenderError")
        /\ UNCHANGED << build, written >>
     \/ /\ generate_atom_raises(all_entries)
        /\ build' = write_file(build, IndexName \o DotHtml,
                       render("list.html", all_entries, << >>, index_feed_url))
        /\ written' = Logged(written, IndexName \o DotHtml)
        /\ Raise("IndexError")
     \/ /\ ~generate_atom_raises(all_entries)
        /\ build' = write_file(
                      write_file(build, IndexName \o DotHtml,
                         render("list.html", all_entries, << >>, index_feed_url)),
                      IndexName \o DotAtom,
                      generate_atom(all_entries, index_feed_url))
        /\ written' = log_all(written,
                         << IndexName \o DotHtml, IndexName \o DotAtom >>)
        /\ Goto("mkdir_tags")
  /\ UNCHANGED << inputs, parsed, public, templates, options, all_entries,
                  staged >>

\* os.mkdir(join(DIRS['build'], 'tags')): raises when the assets had a
\* directory of that name.
MkdirTags ==
  /\ pc = "mkdir_tags"
  /\ IF TagsDir \in build.dirs
     THEN UNCHANGED build /\ Raise("OSError")
     ELSE build' = [ build EXCEPT !.dirs = @ \cup { TagsDir } ]
          /\ Goto("generate_tag_indices")
  /\ UNCHANGED << inputs, parsed, public, templates, options, all_entries,
                  written, staged >>

\* The paths that generate_tag_indices writes for the tags of T.
tag_paths(T) ==
  SetToSeq({ join(TagsDir, t) \o DotHtml : t \in T }
             \cup { join(TagsDir, t) \o DotAtom : t \in T })

\* generate_tag_indices(all_entries, env.get_template('list.html')): the
\* loop runs for every tag, or a render raises after it ran for some.
GenerateTagIndices ==
  /\ pc = "generate_tag_indices"
  /\ \E T \in SUBSET tag_set(all_entries) :
        /\ build' = write_tags(build, all_entries, T)
        /\ written' = log_all(written, tag_paths(T))
        /\ IF T = tag_set(all_entries)
           THEN Goto("generate_details")
           ELSE Raise("RenderError")
  /\ UNCHANGED << inputs, parsed, public, templates, options, all_entries,
                  staged >>

\* generate_details(all_entries, env.get_template('detail.html')): the loop
\* runs for every entry, or a render raises after it ran for the first k.
GenerateDetails ==
  /\ pc = "generate_details"
  /\ \E k \in 0..Len(all_entries) :
        /\ build' = write_details(build, all_entries, k)
        /\ written' = log_all(written,
                         [ i \in 1..k |-> all_entries[i].slug \o DotHtml ])
        /\ IF k = Len(all_entries)
           THEN Goto("generate_404")
           ELSE Raise("RenderError")
  /\ UNCHANGED << inputs, parsed, public, templates, options, all_entries,
                  staged >>

\* generate_404(env.get_template('404.html'))
Generate404 ==
  /\ pc = "generate_404"
  /\ \/ /\ Raise("RenderError")
        /\ UNCHANGED << build, written >>
     \/ /\ build' = write_file(build, NotFoundName \o DotHtml,
                       render("404.html", << >>, << >>, << >>))
        /\ written' = Logged(written, NotFoundName \o DotHtml)
        /\ Goto("generate_style")
  /\ UNCHANGED << inputs, parsed, public, templates, options, all_entries,
                  staged >>

\* generate_style(templates[STYLESHEET])
GenerateStyle ==
  /\ pc = "generate_style"
  /\ \/ /\ Raise("IOError")
        /\ UNCHANGED << build, written, staged >>
     \/ /\ build' = write_file(build, STYLESHEET, Plain("style.css"))
        /\ written' = Logged(written, STYLESHEET)
        /\ staged' = build'
        /\ Goto("rm_public")
  /\ UNCHANGED << inputs, parsed, public, templates, options, all_entries >>

\* _rm(DIRS['public'])
RmPublic ==
  /\ pc = "rm_public"
  /\ \E t \in _rm(public) : public' = t
  /\ Goto("move")
  /\ UNCHANGED << inputs, parsed, build, templates, options, all_entries,
                  written, staged >>

\* The tree src moved into the directory dst under the name of src.
MovedInto(dst, src) ==
  [ exists |-> TRUE,
    dirs   |-> dst.dirs \cup { BuildName }
                 \cup { join(BuildName, d) : d \in src.dirs },
    files  |-> [ p \in Paths(dst) \cup { join(BuildName, q) : q \in Paths(src) }
                  |-> IF p \in Paths(dst) THEN dst.files[p]
                      ELSE src.files[CHOOSE q \in Paths(src) :
                                       p = join(BuildName, q)] ] ]

\* shutil.move(DIRS['build'], DIRS['public']): the staging directory takes
\* the public path when nothing is there, and goes inside the public
\* directory when that still exists; or the move raises, nothing moved.
Move ==
  /\ pc = "move"
  /\ \/ /\ ~public.exists
        /\ public' = build
        /\ build' = NoDir
        /\ Goto("rm_build_final")
     \/ /\ public.exists
        /\ public' = MovedInto(public, build)
        /\ build' = NoDir
        /\ Goto("rm_build_final")
     \/ /\ Raise("OSError")
        /\ UNCHANGED << build, public >>
  /\ UNCHANGED << inputs, parsed, templates, options, all_entries, written,
                  staged >>

\* The last _rm(DIRS['build'])
RmBuildFinal ==
  /\ pc = "rm_build_final"
  /\ \E t \in _rm(build) : build' = t
  /\ Goto("done")
  /\ UNCHANGED << inputs, parsed, public, templates, options, all_entries,
                  written, staged >>

Next ==
  \/ RmBuild
  \/ GetTemplates
  \/ HandleArgs
  \/ ReadAndParseEntries
  \/ CopyAssets
  \/ GenerateIndex
  \/ MkdirTags
  \/ GenerateTagIndices
  \/ GenerateDetails
  \/ Generate404
  \/ GenerateStyle
  \/ RmPublic
  \/ Move
  \/ RmBuildFinal

Spec == Init /\ [][Next]_vars

(***************************************************************************)
(* What the properties below speak of.                                     *)
(***************************************************************************)
\* The statements of the main program before the removal of the public
\* directory.
PrePublish ==
  { "rm_build", "get_templates", "handle_args", "read_and_parse_entries",
    "copytree", "generate_index", "mkdir_tags", "generate_tag_indices",
    "generate_details", "generate_404", "generate_style" }

\* The statements up to the one that builds the catalog.
UpToParse ==
  { "rm_build", "get_templates", "handle_args", "read_and_parse_entries" }

\* The statement that ran last, or is to run: where the run is or ended.
Position == IF pc = "failed" THEN error.at ELSE pc

\* The catalog has been built.
CatalogBuilt == Position \notin UpToParse

\* An entry's date as a number, read from its display form YYYY-MM-DD.
DateNum(e) ==
  int(SubSeq(e.date.display, 1, 4)) * 10000
    + int(SubSeq(e.date.display, 6, 7)) * 100
    + int(SubSeq(e.date.display, 9, 10))

\* The bijections of 1..n.
Perms(n) ==
  { p \in [ 1..n -> 1..n ] : \A i, j \in 1..n : i # j => p[i] # p[j] }

\* sub is the subsequence of seq at the positions of idx, in order.
IsSubsequenceAt(sub, seq, idx) ==
  /\ Len(sub) = Cardinality(idx)
  /\ \E f \in [ 1..Len(sub) -> idx ] :
        /\ \A i, j \in 1..Len(sub) : i < j => f[i] < f[j]
        /\ \A i \in 1..Len(sub) : sub[i] = seq[f[i]]

\* The groups that the pattern captures from a file's own name.
OwnMatch(f) == META_REGEX_findall(<< "/" >> \o f.name)

\* The date that a file's own name gives, and whether it is one.
OwnDateValid(f) ==
  ValidDate(int(OwnMatch(f)[1][1]), int(OwnMatch(f)[1][2]), int(OwnMatch(f)[1][3]))

OwnDate(f) ==
  datetime(int(OwnMatch(f)[1][1]), int(OwnMatch(f)[1][2]), int(OwnMatch(f)[1][3]))

\* The paths of a tree under tags/.
TagPaths(tree) ==
  { p \in Paths(tree) : Len(p) > 5 /\ SubSeq(p, 1, 5) = TagsDir \o << "/" >> }

\* The tags of the catalog, entry by entry.
CatalogTags == UNION { Range(all_entries[i].tags) : i \in 1..Len(all_entries) }

\* The feed is the feed of the list: an element per entry, in order, and
\* the time of the latest entry as the feed's.
FeedOf(feed, list) ==
  /\ Len(feed.entries) = Len(list)
  /\ \A i \in 1..Len(list) :
        /\ feed.entries[i].title = list[i].title
        /\ feed.entries[i].link = URL \o << "/" >> \o list[i].slug
        /\ feed.entries[i].updated = list[i].date.rfc3339
        /\ feed.entries[i].content = list[i].content_html
  /\ \E i \in 1..Len(list) :
        /\ \A j \in 1..Len(list) : DateNum(list[j]) <= DateNum(list[i])
        /\ feed.updated = list[i].date.rfc3339
  /\ feed.updated = list[1].date.rfc3339

\* The page that goes with a feed: the same name, ending .html.
PageOf(p) == SubSeq(p, 1, Len(p) - Len(DotAtom)) \o DotHtml

(***************************************************************************)
(* The properties.                                                         *)
(***************************************************************************)
\* C1: until the removal of the public directory is reached, the public
\* directory is what it was before the run; so a fatal error at any
\* statement before that one leaves it untouched, and the run has stopped.
C1_FatalBeforePublishKeepsPublic ==
  /\ Position \in PrePublish \cup { "rm_public" } => public = previous
  /\ pc = "failed" => ~ENABLED Next

\* C1, the case: generate_details raised with part of the staging
\* directory written, and an earlier public directory in place.
C1_Witness ==
  /\ pc = "failed"
  /\ error.at = "generate_details"
  /\ previous.exists
  /\ Paths(build) # {}

\* C2: at the end of a run the public directory is the whole new output,
\* the run having succeeded, or the whole previous output, the run having
\* failed.
C2_PublishedOrPrevious ==
  /\ pc = "done" => staged.exists /\ public = staged
  /\ pc = "failed" => public = previous

\* sorted is read in an order p, dates not increasing, and entries of one
\* date in the order they have in read.
StableByDate(sorted, read, dates) ==
  /\ Len(sorted) = Len(read)
  /\ \A i, j \in 1..Len(sorted) : i < j => dates[i] >= dates[j]
  /\ \E p \in Perms(Len(sorted)) :
        /\ \A i \in 1..Len(sorted) : sorted[i] = read[p[i]]
        /\ \A i, j \in 1..Len(sorted) :
              i < j /\ dates[i] = dates[j] => p[i] < p[j]

\* C3: the catalog is a permutation of the parsed entries, in the order
\* read, with dates not increasing and entries of one date in read order.
C3_CatalogSortedStable ==
  CatalogBuilt =>
    StableByDate(all_entries, parsed,
                 [ i \in 1..Len(all_entries) |-> DateNum(all_entries[i]) ])

\* C3, the case: two entries of different dates, read the older first.
C3_Witness ==
  /\ CatalogBuilt
  /\ Len(all_entries) = 2
  /\ DateNum(all_entries[1]) > DateNum(all_entries[2])
  /\ all_entries[1] = parsed[2]

\* C4: after a successful run the generated files are index.html,
\* index.atom, 404.html, style.css, a page and a feed per tag and a detail
\* page per entry, each written once, the detail pages as many as entries.
C4_ExactOutputs ==
  pc = "done" =>
    /\ DOMAIN written =
         { IndexName \o DotHtml, IndexName \o DotAtom,
           NotFoundName \o DotHtml, STYLESHEET }
           \cup { join(TagsDir, t) \o DotHtml : t \in CatalogTags }
           \cup { join(TagsDir, t) \o DotAtom : t \in CatalogTags }
           \cup { all_entries[i].slug \o DotHtml : i \in 1..Len(all_entries) }
    /\ \A p \in DOMAIN written : written[p] = 1
    /\ Cardinality({ p \in Paths(staged) : staged.files[p].kind = "detail.html" })
         = Len(all_entries)

\* C5: every feed in the staging directory has an element per entry of its
\* list, in the list's order, and the time of the latest of them, the
\* first: index.atom for the catalog, a tag's feed for the tag's page.
C5_FeedMatchesEntries ==
  \A p \in Paths(build) :
     build.files[p].kind = "atom" =>
       FeedOf(build.files[p],
              IF p = IndexName \o DotAtom THEN all_entries
              ELSE build.files[PageOf(p)].entries)

\* C5, the case: a tag's feed of two entries of different dates, staged.
C5_Witness ==
  /\ pc = "rm_public"
  /\ \E p \in TagPaths(build) :
        /\ build.files[p].kind = "atom"
        /\ Len(build.files[p].entries) = 2
        /\ build.files[p].entries[1].updated # build.files[p].entries[2].updated

\* C6: once generate_tag_indices has run, the files under tags/ are a page
\* and a feed for each tag of the catalog, each written once, and a tag's
\* page lists the entries of the catalog that have the tag, in catalog
\* order.
C6_TagIndicesExact ==
  Position \in { "generate_details", "generate_404", "generate_style",
                 "rm_public", "move" } /\ build.exists =>
    /\ TagPaths(build) =
         { join(TagsDir, t) \o DotHtml : t \in CatalogTags }
           \cup { join(TagsDir, t) \o DotAtom : t \in CatalogTags }
    /\ \A p \in TagPaths(build) : written[p] = 1
    /\ \A t \in CatalogTags :
          /\ build.files[join(TagsDir, t) \o DotHtml].active_tag = t
          /\ IsSubsequenceAt(
               build.files[join(TagsDir, t) \o DotHtml].entries, all_entries,
               { i \in 1..Len(all_entries) : t \in Range(all_entries[i].tags) })

\* C6, the case: an entry that names a tag twice and an entry that names
\* it second, both on that tag's page.
C6_Witness ==
  /\ pc = "rm_public"
  /\ \E i, j \in 1..Len(all_entries) :
        /\ Len(all_entries[i].tags) = 2
        /\ all_entries[i].tags[1] = all_entries[i].tags[2]
        /\ Len(all_entries[j].tags) = 2
        /\ all_entries[j].tags[1] # all_entries[j].tags[2]
        /\ all_entries[j].tags[2] = all_entries[i].tags[1]
        /\ Len(build.files[join(TagsDir, all_entries[i].tags[1]) \o DotHtml].entries) = 2

\* C7: no feed has an empty list of entries; a run whose catalog is empty
\* ends at generate_index with the public directory as it was, and goes no
\* further.
C7_NoFeedOfNothing ==
  /\ \A p \in Paths(build) :
        build.files[p].kind = "atom" => build.files[p].entries # << >>
  /\ \A p \in Paths(public) :
        public.files[p].kind = "atom" => public.files[p].entries # << >>
  /\ CatalogBuilt /\ all_entries = << >> =>
        /\ Position \in { "copytree", "generate_index" }
        /\ public = previous
        /\ pc # "done"

\* C7, the case: the catalog is empty though the source directory is not,
\* and generate_atom has raised in generate_index.
C7_Witness ==
  /\ pc = "failed"
  /\ error = [ at |-> "generate_index", exc |-> "IndexError" ]
  /\ all_entries = << >>
  /\ source # << >>
  /\ previous.exists

\* C8: when a source file's own name has the form of an entry and its
\* numbers are no date, the run goes no further than the parser and the
\* public directory is as before.
C8_BadDateAborts ==
  (\E i \in 1..Len(source) :
      OwnMatch(source[i]) # << >> /\ ~OwnDateValid(source[i]))
    => /\ Position \in UpToParse
       /\ public = previous

\* C9: the catalog has an entry for each source file whose own name has
\* the form of an entry, and for no other; the entry's date and title are
\* those of the file's own name; other files do not stop the run.
C9_OwnNameDecides ==
  /\ CatalogBuilt =>
       /\ Len(all_entries) =
            Cardinality({ i \in 1..Len(source) : OwnMatch(source[i]) # << >> })
       /\ \A k \in 1..Len(all_entries) :
             \E i \in 1..Len(source) :
                /\ OwnMatch(source[i]) # << >>
                /\ all_entries[k].title = ReplaceDots(OwnMatch(source[i])[1][4])
                /\ all_entries[k].date.display = display(OwnDate(source[i]))
  /\ pc = "failed" /\ error.at = "read_and_parse_entries" =>
       \E i \in 1..Len(source) : OwnMatch(source[i]) # << >>

\* C10: a run that reaches its end has made the public directory the tree
\* that it staged, which is the assets and the files it wrote, and has
\* left no staging directory.
C10_PublishedIsStaged ==
  pc = "done" =>
    /\ public = staged
    /\ Paths(staged) = Paths(assets) \cup DOMAIN written
    /\ ~build.exists

====
